---- MODULE Spec2Model ----
(***************************************************************************)
(* A model of generate_icons.py, the AdRig icon generator: the geometry    *)
(* builders (create_shield_points, the helix of draw_circuit_dna), the     *)
(* radial gradient loop and the fixed draw sequences of create_adrig_icon  *)
(* and create_foreground_icon.                                             *)
(*                                                                         *)
(* Python floats are IEEE-754 binary64 values.  They are modelled bit for  *)
(* bit: a float is a record [s, h, l, e] standing for                      *)
(*      s * (h * 2^27 + l) * 2^e                                           *)
(* with sign s in {-1, 0, 1} and, for a non-zero value, a 53-bit mantissa  *)
(* (2^25 <= h < 2^26, 0 <= l < 2^27).  Every arithmetic operator rounds to *)
(* nearest, ties to even, as the hardware does.  The values of the program *)
(* stay far away from overflow, underflow, infinities and NaN, which are   *)
(* not represented.  The mantissa is split in two because the integers of  *)
(* the model checker are 32 bits wide.                                     *)
(***************************************************************************)
EXTENDS Integers, Sequences, FiniteSets, TLC

\* ------------------------------------------------------------------------
\* binary64 arithmetic
\* ------------------------------------------------------------------------

B27 == 2^27

Zero == [s |-> 0, h |-> 0, l |-> 0, e |-> 0]

\* Number of significant bits of a natural number below 2^31.
BitLen(n) == Cardinality({k \in 0..30 : 2^k <= n})

\* Bits of the two-limb natural h * 2^27 + l.
WideLen(h, l) == IF h > 0 THEN 27 + BitLen(h) ELSE BitLen(l)

\* h * 2^27 + l shifted left by k bits; the result stays below 2^58.
ShiftLeft(h, l, k) ==
    IF k >= 27
    THEN <<l * 2^(k - 27), 0>>
    ELSE <<h * 2^k + (l \div 2^(27 - k)), (l % 2^(27 - k)) * 2^k>>

\* h * 2^27 + l shifted right by d bits: <<h', l', lost>> where lost says
\* that a non-zero bit was shifted out.
ShiftRight(h, l, d) ==
    IF d = 0 THEN <<h, l, FALSE>>
    ELSE IF d < 27
    THEN <<h \div 2^d, (l \div 2^d) + (h % 2^d) * 2^(27 - d), (l % 2^d) # 0>>
    ELSE IF d - 27 > 30
    THEN <<0, 0, h # 0 \/ l # 0>>
    ELSE <<(h \div 2^(d - 27)) \div B27, (h \div 2^(d - 27)) % B27,
           l # 0 \/ (h % 2^(d - 27)) # 0>>

\* The float s * (h * 2^27 + l) * 2^e, where l may have reached 2^27 and the
\* mantissa 2^53 by a carry.
Carry(s, h, l, e) ==
    IF l < B27 THEN [s |-> s, h |-> h, l |-> l, e |-> e]
    ELSE IF h + 1 = 2^26 THEN [s |-> s, h |-> 2^25, l |-> 0, e |-> e + 1]
    ELSE [s |-> s, h |-> h + 1, l |-> 0, e |-> e]

\* Rounding to nearest, ties to even: q is the mantissa shifted right, rem the
\* bits shifted out, half their middle value.
RoundOff(s, q, e, rem, half, sticky) ==
    Carry(s, q[1],
          IF rem > half \/ (rem = half /\ (sticky \/ q[2] % 2 = 1))
          THEN q[2] + 1 ELSE q[2],
          e)

\* Round for a mantissa of len bits.
RoundAt(s, h, l, e, sticky, len) ==
    IF len = 0 THEN Zero
    ELSE IF len <= 53
    THEN Carry(s, ShiftLeft(h, l, 53 - len)[1], ShiftLeft(h, l, 53 - len)[2],
               e - (53 - len))
    ELSE RoundOff(s, ShiftRight(h, l, len - 53), e + (len - 53),
                  l % 2^(len - 53), 2^(len - 54), sticky)

\* The binary64 value nearest to s * (h * 2^27 + l + f) * 2^e, where f is 0,
\* or some fraction strictly between 0 and 1 when sticky holds (round to
\* nearest, ties to even).
Round(s, h, l, e, sticky) == RoundAt(s, h, l, e, sticky, WideLen(h, l))

\* float(n) for a Python int n with |n| < 2^31 (exact).
FromInt(n) ==
    Round(IF n < 0 THEN -1 ELSE 1,
          (IF n < 0 THEN -n ELSE n) \div B27,
          (IF n < 0 THEN -n ELSE n) % B27, 0, FALSE)

FNeg(a) == [a EXCEPT !.s = -a.s]

FAbs(a) == [a EXCEPT !.s = IF a.s = 0 THEN 0 ELSE 1]

\* |a| < |b| for two non-zero floats.
MagLess(a, b) ==
    \/ a.e < b.e
    \/ a.e = b.e /\ (a.h < b.h \/ (a.h = b.h /\ a.l < b.l))

\* a < b
FLess(a, b) ==
    IF a.s # b.s THEN a.s < b.s
    ELSE IF a.s = 0 THEN FALSE
    ELSE IF a.s = 1 THEN MagLess(a, b)
    ELSE MagLess(b, a)

FLessEq(a, b) == a = b \/ FLess(a, b)

\* The sum or difference w = <<high, low>> of two aligned mantissas, rounded;
\* the low part may be negative (a borrow) or have a carry.
AddRound(x, w, sticky) ==
    Round(x.s,
          IF w[2] < 0 THEN w[1] - 1 ELSE w[1] + (w[2] \div B27),
          IF w[2] < 0 THEN w[2] + B27 ELSE w[2] % B27,
          x.e - 3, sticky)

\* x + y for |x| >= |y|: xh:xl is the mantissa of x with three guard bits,
\* ys the mantissa of y with three guard bits shifted to the exponent of x.
AddAligned(x, y, xh, xl, ys) ==
    AddRound(x,
             IF x.s = y.s THEN <<xh + ys[1], xl + ys[2]>>
             ELSE <<xh - ys[1], xl - ys[2] - (IF ys[3] THEN 1 ELSE 0)>>,
             ys[3])

\* x + y for two non-zero floats with |x| >= |y|
AddOrdered(x, y) ==
    AddAligned(x, y, x.h * 8 + (x.l \div 2^24), (x.l % 2^24) * 8,
               ShiftRight(y.h * 8 + (y.l \div 2^24), (y.l % 2^24) * 8,
                          x.e - y.e))

\* a + b
FAdd(a, b) ==
    IF a.s = 0 THEN b
    ELSE IF b.s = 0 THEN a
    ELSE IF MagLess(a, b) THEN AddOrdered(b, a)
    ELSE AddOrdered(a, b)

\* a - b
FSub(a, b) == FAdd(a, FNeg(b))

\* The four 14-bit limbs of a 53-bit mantissa, lowest first.
Limbs(a) ==
    <<a.l % 2^14,
      (a.l \div 2^14) + (a.h % 2) * 2^13,
      (a.h \div 2) % 2^14,
      a.h \div 2^15>>

\* The product of the limbs x and y, column by column with the carry of the
\* column before (c5 is column 5); st says that a dropped bit was non-zero,
\* d3 and d4 are the digits of columns 3 and 4.  The product is divided by
\* 2^48.
MulCol6(s, e, x, y, st, d3, d4, c5) ==
    Round(s,
          ((c5 % 2^14) \div 2^5) + (x[4] * y[4] + (c5 \div 2^14)) * 2^9,
          (d3 \div 2^6) + d4 * 2^8 + ((c5 % 2^14) % 2^5) * 2^22,
          e, st \/ (d3 % 2^6) # 0)

MulCol5(s, e, x, y, st, d3, c4) ==
    MulCol6(s, e, x, y, st, d3, c4 % 2^14,
            x[3] * y[4] + x[4] * y[3] + (c4 \div 2^14))

MulCol4(s, e, x, y, st, c3) ==
    MulCol5(s, e, x, y, st, c3 % 2^14,
            x[2] * y[4] + x[3] * y[3] + x[4] * y[2] + (c3 \div 2^14))

MulCol3(s, e, x, y, st, c2) ==
    MulCol4(s, e, x, y, st \/ (c2 % 2^14) # 0,
            x[1] * y[4] + x[2] * y[3] + x[3] * y[2] + x[4] * y[1]
            + (c2 \div 2^14))

MulCol2(s, e, x, y, st, c1) ==
    MulCol3(s, e, x, y, st \/ (c1 % 2^14) # 0,
            x[1] * y[3] + x[2] * y[2] + x[3] * y[1] + (c1 \div 2^14))

MulCol1(s, e, x, y, c0) ==
    MulCol2(s, e, x, y, (c0 % 2^14) # 0,
            x[1] * y[2] + x[2] * y[1] + (c0 \div 2^14))

MulLimbs(s, e, x, y) == MulCol1(s, e, x, y, x[1] * y[1])

\* a * b
FMul(a, b) ==
    IF a.s = 0 \/ b.s = 0 THEN Zero
    ELSE MulLimbs(a.s * b.s, a.e + b.e + 48, Limbs(a), Limbs(b))

\* The end of a division step: the remainder sh:sl and the quotient bits
\* qh:q2 are shifted left by one bit.
DivShift(sh, sl, qh, q2) ==
    <<2 * sh + ((2 * sl) \div B27), (2 * sl) % B27,
      2 * qh + (q2 \div B27), q2 % B27>>

\* The remainder h:tl of a division step, where tl may be negative (a borrow)
DivBorrow(h, tl, qh, q2) ==
    DivShift(IF tl < 0 THEN h - 1 ELSE h, IF tl < 0 THEN tl + B27 ELSE tl,
             qh, q2)

\* A division step whose comparison gave ge
DivSub(st, bh, bl, ge) ==
    DivBorrow(IF ge THEN st[1] - bh ELSE st[1],
              IF ge THEN st[2] - bl ELSE st[2],
              st[3], 2 * st[4] + (IF ge THEN 1 ELSE 0))

\* One step of restoring division by the mantissa bh:bl.  st is
\* <<rh, rl, qh, ql>>: the remainder rh:rl and the quotient bits so far, qh:ql.
DivStep(st, bh, bl) ==
    DivSub(st, bh, bl, st[1] > bh \/ (st[1] = bh /\ st[2] >= bl))

\* Seven steps of the division.
DivStep7(st, bh, bl) ==
    DivStep(DivStep(DivStep(DivStep(DivStep(DivStep(DivStep(st, bh, bl),
        bh, bl), bh, bl), bh, bl), bh, bl), bh, bl), bh, bl)

\* k times seven steps of the division
RECURSIVE DivLoop(_, _, _, _)
DivLoop(st, bh, bl, k) ==
    IF k = 0 \/ st = <<>> THEN st
    ELSE DivLoop(DivStep7(st, bh, bl), bh, bl, k - 1)

\* The quotient bits st[3]:st[4] of 56 steps, rounded; the remainder
\* st[1]:st[2] is the sticky bit.
DivRound(s, e, st) == Round(s, st[3], st[4], e, st[1] # 0 \/ st[2] # 0)

\* a / b for b # 0 (the callers raise ZeroDivisionError themselves)
FDiv(a, b) ==
    IF a.s = 0 THEN Zero
    ELSE DivRound(a.s * b.s, a.e - b.e - 55,
                  DivLoop(<<a.h, a.l, 0, 0>>, b.h, b.l, 8))

\* The end of a square root step: the remainder h:bl, where bl may be
\* negative (a borrow), and the root so far with its new bit, st[3]:q2.
SqrtPack(st, h, bl, q2) ==
    <<IF bl < 0 THEN h - 1 ELSE h, IF bl < 0 THEN bl + B27 ELSE bl,
      2 * st[3] + (q2 \div B27), q2 % B27,
      IF st[5] > 0 THEN st[5] - 1 ELSE 0>>

\* A square root step whose comparison gave ge
SqrtSub(st, ah, am, th, tm, ge) ==
    SqrtPack(st, IF ge THEN ah - th ELSE ah, IF ge THEN am - tm ELSE am,
             2 * st[4] + (IF ge THEN 1 ELSE 0))

\* The remainder ah:am against the trial value th:tm
SqrtTry(st, ah, am, th, tm) ==
    SqrtSub(st, ah, am, th, tm, ah > th \/ (ah = th /\ am >= tm))

\* al is remainder * 4 + the next bit pair, tl is root * 4 + 1 (low limbs)
SqrtCarry(st, al, tl) ==
    SqrtTry(st, 4 * st[1] + (al \div B27), al % B27,
            4 * st[3] + (tl \div B27), tl % B27)

\* One step of the digit-by-digit square root of the integer v.  st is
\* <<rh, rl, qh, ql, p>>: the remainder rh:rl, the root so far qh:ql and the
\* number p of bit pairs of v still to come (zero pairs follow them).
SqrtStep(st, v) ==
    SqrtCarry(st,
              4 * st[2] + (IF st[5] > 0 THEN (v \div 4^(st[5] - 1)) % 4 ELSE 0),
              4 * st[4] + 1)

\* Six steps of the square root.
SqrtStep6(st, v) ==
    SqrtStep(SqrtStep(SqrtStep(SqrtStep(SqrtStep(SqrtStep(st, v), v), v), v),
        v), v)

\* k times six steps of the square root
RECURSIVE SqrtLoop(_, _, _)
SqrtLoop(st, v, k) ==
    IF k = 0 \/ st = <<>> THEN st
    ELSE SqrtLoop(SqrtStep6(st, v), v, k - 1)

\* The root st[3]:st[4] of 54 steps, rounded; the remainder is the sticky bit.
SqrtRound(p, st) == Round(1, st[3], st[4], p - 54, st[1] # 0 \/ st[2] # 0)

\* The square root of v, which has p bit pairs
SqrtPairs(v, p) == SqrtRound(p, SqrtLoop(<<0, 0, 0, 0, p>>, v, 9))

\* math.sqrt(v) for a Python int 0 <= v < 2^30
FSqrtInt(v) ==
    IF v = 0 THEN Zero ELSE SqrtPairs(v, (BitLen(v) + 1) \div 2)

\* the integer s * (q[1] * 2^27 + q[2])
TruncOf(s, q) == s * (q[1] * B27 + q[2])

\* int(a): truncation toward zero; the result is below 2^31.
FTrunc(a) ==
    IF a.s = 0 \/ a.e <= -53 THEN 0
    ELSE IF a.e >= 0 THEN a.s * (a.h * B27 + a.l) * 2^(a.e)
    ELSE TruncOf(a.s, ShiftRight(a.h, a.l, -a.e))

\* a if a <= b, else b: min(a, b)
MinF(a, b) == IF FLess(b, a) THEN b ELSE a

\* max(a, b)
MaxF(a, b) == IF FLess(a, b) THEN b ELSE a

\* The float literals of the program, by their number of hundredths: Lit[70]
\* is 0.7, Lit[105] is 1.05.  A literal is the binary64 value nearest to the
\* decimal.
Lit ==
      2   :> [s |-> 1, h |-> 42949672, l |-> 128849019, e |-> -58] @@
      5   :> [s |-> 1, h |-> 53687091, l |-> 26843546, e |-> -57] @@
      20  :> [s |-> 1, h |-> 53687091, l |-> 26843546, e |-> -55] @@
      30  :> [s |-> 1, h |-> 40265318, l |-> 53687091, e |-> -54] @@
      35  :> [s |-> 1, h |-> 46976204, l |-> 107374182, e |-> -54] @@
      38  :> [s |-> 1, h |-> 51002736, l |-> 85899346, e |-> -54] @@
      40  :> [s |-> 1, h |-> 53687091, l |-> 26843546, e |-> -54] @@
      45  :> [s |-> 1, h |-> 60397977, l |-> 80530637, e |-> -54] @@
      48  :> [s |-> 1, h |-> 64424509, l |-> 59055800, e |-> -54] @@
      50  :> [s |-> 1, h |-> 33554432, l |-> 0, e |-> -53] @@
      55  :> [s |-> 1, h |-> 36909875, l |-> 26843546, e |-> -53] @@
      60  :> [s |-> 1, h |-> 40265318, l |-> 53687091, e |-> -53] @@
      70  :> [s |-> 1, h |-> 46976204, l |-> 107374182, e |-> -53] @@
      75  :> [s |-> 1, h |-> 50331648, l |-> 0, e |-> -53] @@
      80  :> [s |-> 1, h |-> 53687091, l |-> 26843546, e |-> -53] @@
      85  :> [s |-> 1, h |-> 57042534, l |-> 53687091, e |-> -53] @@
      95  :> [s |-> 1, h |-> 63753420, l |-> 107374182, e |-> -53] @@
      105 :> [s |-> 1, h |-> 35232153, l |-> 80530637, e |-> -52] @@
      112 :> [s |-> 1, h |-> 37580963, l |-> 112742892, e |-> -52] @@
      160 :> [s |-> 1, h |-> 53687091, l |-> 26843546, e |-> -52]

\* i / n as the program computes it
Param(i, n) == FDiv(FromInt(i), FromInt(n))

\* math.sin(t * math.pi * 4) for t = i / 40, i = 0 .. 39 (entry i + 1): the
\* binary64 values the C library returns for these arguments.  The argument
\* t * math.pi * 4 is itself rounded, so sin is not exactly 0 at t = 1/4,
\* 1/2, 3/4.
SinTab ==
    <<
      Zero,
      [s |-> 1, h |-> 41475558, l |-> 120580431, e |-> -54],
      [s |-> 1, h |-> 39445600, l |-> 74799710, e |-> -53],
      [s |-> 1, h |-> 54292211, l |-> 60290216, e |-> -53],
      [s |-> 1, h |-> 63824322, l |-> 54809855, e |-> -53],
      [s |-> 1, h |-> 33554432, l |-> 0, e |-> -52],
      [s |-> 1, h |-> 63824322, l |-> 54809856, e |-> -53],
      [s |-> 1, h |-> 54292211, l |-> 60290216, e |-> -53],
      [s |-> 1, h |-> 39445600, l |-> 74799711, e |-> -53],
      [s |-> 1, h |-> 41475558, l |-> 120580433, e |-> -54],
      [s |-> 1, h |-> 37012678, l |-> 51665927, e |-> -105],
      [s |-> -1, h |-> 41475558, l |-> 120580437, e |-> -54],
      [s |-> -1, h |-> 39445600, l |-> 74799709, e |-> -53],
      [s |-> -1, h |-> 54292211, l |-> 60290215, e |-> -53],
      [s |-> -1, h |-> 63824322, l |-> 54809855, e |-> -53],
      [s |-> -1, h |-> 33554432, l |-> 0, e |-> -52],
      [s |-> -1, h |-> 63824322, l |-> 54809856, e |-> -53],
      [s |-> -1, h |-> 54292211, l |-> 60290217, e |-> -53],
      [s |-> -1, h |-> 39445600, l |-> 74799712, e |-> -53],
      [s |-> -1, h |-> 41475558, l |-> 120580435, e |-> -54],
      [s |-> -1, h |-> 37012678, l |-> 51665927, e |-> -104],
      [s |-> 1, h |-> 41475558, l |-> 120580427, e |-> -54],
      [s |-> 1, h |-> 39445600, l |-> 74799714, e |-> -53],
      [s |-> 1, h |-> 54292211, l |-> 60290210, e |-> -53],
      [s |-> 1, h |-> 63824322, l |-> 54809855, e |-> -53],
      [s |-> 1, h |-> 33554432, l |-> 0, e |-> -52],
      [s |-> 1, h |-> 63824322, l |-> 54809856, e |-> -53],
      [s |-> 1, h |-> 54292211, l |-> 60290218, e |-> -53],
      [s |-> 1, h |-> 39445600, l |-> 74799712, e |-> -53],
      [s |-> 1, h |-> 41475558, l |-> 120580438, e |-> -54],
      [s |-> 1, h |-> 55519017, l |-> 77498890, e |-> -104],
      [s |-> -1, h |-> 41475558, l |-> 120580425, e |-> -54],
      [s |-> -1, h |-> 39445600, l |-> 74799707, e |-> -53],
      [s |-> -1, h |-> 54292211, l |-> 60290214, e |-> -53],
      [s |-> -1, h |-> 63824322, l |-> 54809854, e |-> -53],
      [s |-> -1, h |-> 33554432, l |-> 0, e |-> -52],
      [s |-> -1, h |-> 63824322, l |-> 54809857, e |-> -53],
      [s |-> -1, h |-> 54292211, l |-> 60290218, e |-> -53],
      [s |-> -1, h |-> 39445600, l |-> 74799713, e |-> -53],
      [s |-> -1, h |-> 41475558, l |-> 120580440, e |-> -54]
    >>

\* math.sin(t * math.pi * 4) for t = i / n, where n divides 40
Sin4Pi(i, n) == SinTab[(i * 40) \div n + 1]

\* ------------------------------------------------------------------------
\* bounds of the model
\* ------------------------------------------------------------------------

\* Centers (cx, cy) with 0 <= cx, cy <= MaxCoord and radii 1 .. MaxInputRadius
\* are the inputs of the geometry builders when they are checked on their
\* own, next to the center and the radii of the 1024-pixel icons.
MaxCoord == 4

MaxInputRadius == 3

\* The icon functions are called with every size in -1 .. MaxGrid (one
\* negative size, zero, and the small canvases, whose every pixel is
\* followed through the gradient) and with the size main() passes.
MaxGrid == 4

\* A glyph of a font of pixel size px is taken to advance px / GlyphDen
\* pixels; the fallback font of ImageFont.load_default() has pixel size
\* DefaultFontPx.
GlyphDen == 2

DefaultFontPx == 10

\* ------------------------------------------------------------------------
\* program constants
\* ------------------------------------------------------------------------

\* steps = 40 in draw_circuit_dna
steps == 40

\* connection_steps = 8 in draw_circuit_dna
connection_steps == 8

\* segments = 50 in the divider of create_adrig_icon
segments == 50

\* size = 1024 in main()
DefaultSize == 1024

Functions == {"create_adrig_icon", "create_foreground_icon"}

Sizes == (-1 .. MaxGrid) \cup {DefaultSize}

\* None
None == <<>>

\* Image.new('RGBA', (size, size), (0, 0, 0, 0))
Transparent == <<0, 0, 0, 0>>

\* a 3-tuple colour given to a drawing call of an RGBA canvas is opaque
Opaque(rgb) == <<rgb[1], rgb[2], rgb[3], 255>>

\* ------------------------------------------------------------------------
\* state
\* ------------------------------------------------------------------------

VARIABLES
    pc,             \* where the running function is
    fn,             \* the function that was called
    size,           \* its argument
    center,         \* center: a pair of ints
    radius,         \* radius: an int
    shield_points,  \* the list create_shield_points returned
    left_points,    \* draw_circuit_dna: left_points
    right_points,   \* draw_circuit_dna: right_points
    row,            \* y of the gradient loop: the row it is at
    put,            \* per followed pixel, the colours putpixel wrote to it
    ratios,         \* per followed pixel, the ratio the gradient used
    img,            \* the canvas at the probe pixels (corners and center)
    log,            \* the drawing calls made so far, in order
    stages,         \* the stages finished so far, in order
    font,           \* the font the try/except ended with
    err,            \* the exception that ended the call, if any
    result          \* the returned image at the probe pixels

vars == <<pc, fn, size, center, radius, shield_points, left_points,
          right_points, row, put, ratios, img, log, stages, font, err, result>>

\* ------------------------------------------------------------------------
\* geometry builders
\* ------------------------------------------------------------------------

\* create_shield_points with 0.7 for 0.75 in the first point of the right side
ShieldPointsTypo(cx, cy, r) ==
    <<  \* Top
        <<cx, FSub(cy, FMul(r, Lit[105]))>>,
        <<FSub(cx, FMul(r, Lit[70])), FSub(cy, FMul(r, Lit[95]))>>,
        <<FSub(cx, FMul(r, Lit[85])), FSub(cy, FMul(r, Lit[60]))>>,
        \* Left side
        <<FSub(cx, FMul(r, Lit[95])), FSub(cy, FMul(r, Lit[20]))>>,
        <<FSub(cx, FMul(r, Lit[95])), FAdd(cy, FMul(r, Lit[20]))>>,
        <<FSub(cx, FMul(r, Lit[75])), FAdd(cy, FMul(r, Lit[55]))>>,
        \* Bottom point
        <<cx, FAdd(cy, FMul(r, Lit[112]))>>,
        \* Right side
        <<FAdd(cx, FMul(r, Lit[70])), FAdd(cy, FMul(r, Lit[55]))>>,
        <<FAdd(cx, FMul(r, Lit[95])), FAdd(cy, FMul(r, Lit[20]))>>,
        <<FAdd(cx, FMul(r, Lit[95])), FSub(cy, FMul(r, Lit[20]))>>,
        \* Top right
        <<FAdd(cx, FMul(r, Lit[85])), FSub(cy, FMul(r, Lit[60]))>>,
        <<FAdd(cx, FMul(r, Lit[70])), FSub(cy, FMul(r, Lit[95]))>>
    >>

\* create_shield_points(center, radius); cx, cy and radius are floats here
create_shield_points(cx, cy, r) ==
    <<  \* Top
        <<cx, FSub(cy, FMul(r, Lit[105]))>>,
        <<FSub(cx, FMul(r, Lit[70])), FSub(cy, FMul(r, Lit[95]))>>,
        <<FSub(cx, FMul(r, Lit[85])), FSub(cy, FMul(r, Lit[60]))>>,
        \* Left side
        <<FSub(cx, FMul(r, Lit[95])), FSub(cy, FMul(r, Lit[20]))>>,
        <<FSub(cx, FMul(r, Lit[95])), FAdd(cy, FMul(r, Lit[20]))>>,
        <<FSub(cx, FMul(r, Lit[75])), FAdd(cy, FMul(r, Lit[55]))>>,
        \* Bottom point
        <<cx, FAdd(cy, FMul(r, Lit[112]))>>,
        \* Right side
        <<FAdd(cx, FMul(r, Lit[75])), FAdd(cy, FMul(r, Lit[55]))>>,
        <<FAdd(cx, FMul(r, Lit[95])), FAdd(cy, FMul(r, Lit[20]))>>,
        <<FAdd(cx, FMul(r, Lit[95])), FSub(cy, FMul(r, Lit[20]))>>,
        \* Top right
        <<FAdd(cx, FMul(r, Lit[85])), FSub(cy, FMul(r, Lit[60]))>>,
        <<FAdd(cx, FMul(r, Lit[70])), FSub(cy, FMul(r, Lit[95]))>>
    >>

\* HelixPair with right_x on the side of left_x
HelixPairSameSide(cx, yy, amp) ==
    << <<FSub(cx, amp), yy>>, <<FSub(cx, amp), yy>> >>

\* left_x = cx - amp and right_x = cx + amp at height yy
HelixPair(cx, yy, amp) == << <<FSub(cx, amp), yy>>, <<FAdd(cx, amp), yy>> >>

\* The helix at parameter t = i / n: y, left_x and right_x of one loop
\* iteration of draw_circuit_dna, as <<left point, right point>>.
HelixAt(cx, cy, r, i, n) ==
    HelixPair(cx,
              FAdd(FSub(cy, FMul(r, Lit[80])),
                   FMul(FMul(Param(i, n), r), Lit[160])),
              FMul(FMul(r, Lit[30]), Sin4Pi(i, n)))

\* a list of pairs as a pair of lists
Unzip(sample) ==
    <<[i \in DOMAIN sample |-> sample[i][1]],
      [i \in DOMAIN sample |-> sample[i][2]]>>

\* The two strands draw_circuit_dna builds: the loop
\* `for i in range(steps)` with t = i / steps, as <<left_points, right_points>>.
HelixStrands(cx, cy, r) ==
    Unzip([i \in 1..steps |-> HelixAt(cx, cy, r, i - 1, steps)])

\* ------------------------------------------------------------------------
\* the radial gradient of create_adrig_icon
\* ------------------------------------------------------------------------

\* The corners and the center of a canvas of n x n pixels.
Probes(n) ==
    IF n < 1 THEN {}
    ELSE {<<0, 0>>, <<n - 1, 0>>, <<0, n - 1>>, <<n - 1, n - 1>>,
          <<n \div 2, n \div 2>>}

\* The pixels followed through the gradient: all of a small canvas, the
\* probes of a large one.
Followed(n) ==
    IF n <= MaxGrid THEN (0 .. n - 1) \X (0 .. n - 1) ELSE Probes(n)

\* max_radius = math.sqrt(center[0]**2 + center[1]**2)
max_radius(c) == FSqrtInt(c[1] * c[1] + c[2] * c[2])

\* distance = math.sqrt((x - center[0])**2 + (y - center[1])**2)
distance(p, c) ==
    FSqrtInt((p[1] - c[1]) * (p[1] - c[1]) + (p[2] - c[2]) * (p[2] - c[2]))

\* int(c0 + (c1 - c0) * t)
Blend(c0, c1, t) == FTrunc(FAdd(FromInt(c0), FMul(FromInt(c1 - c0), t)))

\* the colour between c0 and c1 at t, opaque
Ramp(c0, c1, t) ==
    <<Blend(c0[1], c1[1], t), Blend(c0[2], c1[2], t), Blend(c0[3], c1[3], t),
      255>>

\* GradientColor with the offset 0.4 of the second ramp in the third ramp
GradientColorSameOffset(r) ==
    IF FLess(r, Lit[40]) THEN <<0, 8, 32, 255>>
    ELSE IF FLess(r, Lit[70])
    THEN Ramp(<<0, 8, 32>>, <<0, 24, 64>>, FDiv(FSub(r, Lit[40]), Lit[30]))
    ELSE Ramp(<<0, 24, 64>>, <<15, 52, 96>>, FDiv(FSub(r, Lit[40]), Lit[30]))

\* the colour the gradient gives a pixel of the given ratio
GradientColor(r) ==
    IF FLess(r, Lit[40]) THEN <<0, 8, 32, 255>>
    ELSE IF FLess(r, Lit[70])
    THEN Ramp(<<0, 8, 32>>, <<0, 24, 64>>, FDiv(FSub(r, Lit[40]), Lit[30]))
    ELSE Ramp(<<0, 24, 64>>, <<15, 52, 96>>, FDiv(FSub(r, Lit[70]), Lit[30]))

\* ------------------------------------------------------------------------
\* drawing calls
\* ------------------------------------------------------------------------

\* draw.polygon(pts, fill=fill, outline=outline, width=width)
Polygon(stage, pts, fill, outline, width) ==
    [stage |-> stage, op |-> "polygon", pts |-> pts, fill |-> fill,
     outline |-> outline, width |-> width, text |-> "", ink |-> FALSE]

\* draw.line([a, b], fill=fill, width=width)
Line(stage, a, b, fill, width) ==
    [stage |-> stage, op |-> "line", pts |-> <<a, b>>, fill |-> fill,
     outline |-> None, width |-> width, text |-> "", ink |-> FALSE]

\* draw.ellipse([x0, y0, x1, y1], fill=fill)
Ellipse(stage, x0, y0, x1, y1, fill) ==
    [stage |-> stage, op |-> "ellipse", pts |-> << <<x0, y0>>, <<x1, y1>> >>,
     fill |-> fill, outline |-> None, width |-> 0, text |-> "", ink |-> FALSE]

\* draw.ellipse([x-d, y-d, x+d, y+d], fill=fill)
Dot(stage, x, yy, d, fill) ==
    Ellipse(stage, FSub(x, d), FSub(yy, d), FAdd(x, d), FAdd(yy, d), fill)

\* draw.text((x, y), text, fill=fill, font=...): the anchor and the opposite
\* corner of the text's box; ink says whether the probe pixels inside the box
\* are pixels of a glyph.
Text(stage, x, yy, w, h, text, fill, ink) ==
    [stage |-> stage, op |-> "text",
     pts |-> << <<x, yy>>, <<FAdd(x, FromInt(w)), FAdd(yy, FromInt(h))>> >>,
     fill |-> fill, outline |-> None, width |-> 0, text |-> text, ink |-> ink]

\* x0 <= px <= x1 and y0 <= py <= y1
InRect(px, py, x0, y0, x1, y1) ==
    /\ FLessEq(x0, px) /\ FLessEq(px, x1)
    /\ FLessEq(y0, py) /\ FLessEq(py, y1)

\* The point at (ex, ey) from the start of the segment (dx, dy) is within hw
\* of the line through the segment.
WithinBand(dx, dy, ex, ey, hw) ==
    FLessEq(FMul(FSub(FMul(dx, ey), FMul(dy, ex)),
                 FSub(FMul(dx, ey), FMul(dy, ex))),
            FMul(FMul(hw, hw), FAdd(FMul(dx, dx), FMul(dy, dy))))

\* The pixel (px, py) is within hw of the segment from a to b.
NearSegment(a, b, hw, px, py) ==
    /\ InRect(px, py, FSub(MinF(a[1], b[1]), hw), FSub(MinF(a[2], b[2]), hw),
              FAdd(MaxF(a[1], b[1]), hw), FAdd(MaxF(a[2], b[2]), hw))
    /\ WithinBand(FSub(b[1], a[1]), FSub(b[2], a[2]),
                  FSub(px, a[1]), FSub(py, a[2]), hw)

\* The pixel (px, py) is on the path through pts, closed or open, w wide.
Stroke(pts, closed, w, px, py) ==
    \E k \in 1..(IF closed THEN Len(pts) ELSE Len(pts) - 1) :
        NearSegment(pts[k], pts[(k % Len(pts)) + 1],
                    FMul(FromInt(w), Lit[50]), px, py)

\* The point (ex, ey) is inside the ellipse of radii rx and ry around (0, 0).
InEllipse(ex, ey, rx, ry) ==
    FLessEq(FAdd(FMul(FMul(ex, ry), FMul(ex, ry)),
                 FMul(FMul(ey, rx), FMul(ey, rx))),
            FMul(FMul(rx, ry), FMul(rx, ry)))

\* The pixel (px, py) is inside the ellipse of the box from c0 to c1.
EllipseCovers(c0, c1, px, py) ==
    /\ InRect(px, py, c0[1], c0[2], c1[1], c1[2])
    /\ InEllipse(FSub(px, FMul(FAdd(c0[1], c1[1]), Lit[50])),
                 FSub(py, FMul(FAdd(c0[2], c1[2]), Lit[50])),
                 FMul(FSub(c1[1], c0[1]), Lit[50]),
                 FMul(FSub(c1[2], c0[2]), Lit[50]))

\* The horizontal ray from (px, py) to the right crosses the edge from a to b.
Crosses(a, b, px, py) ==
    /\ FLess(py, a[2]) # FLess(py, b[2])
    /\ FLess(px, FAdd(a[1], FDiv(FMul(FSub(py, a[2]), FSub(b[1], a[1])),
                                 FSub(b[2], a[2]))))

\* The pixel (px, py) is inside the polygon (even-odd rule).
InsidePolygon(pts, px, py) ==
    Cardinality({k \in 1..Len(pts) :
                    Crosses(pts[k], pts[(k % Len(pts)) + 1], px, py)}) % 2 = 1

\* the ink of the stroke of a drawing call: the fill of a line, the outline
\* of a polygon
StrokeInk(d) == IF d.op = "line" THEN d.fill ELSE d.outline

\* The colour the drawing call d leaves at the pixel (px, py), None when it
\* does not touch it.  The canvas and the Draw object are both RGBA, so the
\* ink replaces the pixel; the outline of a polygon is drawn over its fill.
TouchInk(d, px, py) ==
    IF /\ d.op \in {"line", "polygon"}
       /\ StrokeInk(d) # None
       /\ Stroke(d.pts, d.op = "polygon", d.width, px, py)
    THEN StrokeInk(d)
    ELSE IF d.op = "polygon" /\ d.fill # None /\ InsidePolygon(d.pts, px, py)
    THEN d.fill
    ELSE IF d.op = "ellipse" /\ EllipseCovers(d.pts[1], d.pts[2], px, py)
    THEN d.fill
    ELSE IF /\ d.op = "text"
            /\ d.ink
            /\ InRect(px, py, d.pts[1][1], d.pts[1][2], d.pts[2][1],
                      d.pts[2][2])
    THEN d.fill
    ELSE None

\* The colour of a pixel of colour c after drawing calls that leave the inks:
\* the ink of the last call that touches it.
LastInk(c, inks, hits) ==
    IF hits = {} THEN c
    ELSE inks[CHOOSE m \in hits : \A k \in hits : k <= m]

PaintPixel(c, inks) == LastInk(c, inks, {k \in DOMAIN inks : inks[k] # None})

\* The canvas after the drawing calls ds, made in order.
Paint(im, ds) ==
    [p \in DOMAIN im |->
        PaintPixel(im[p], [k \in DOMAIN ds |->
                              TouchInk(ds[k], FromInt(p[1]), FromInt(p[2]))])]

\* ------------------------------------------------------------------------
\* the drawing calls of each stage
\* ------------------------------------------------------------------------

Cyan == <<0, 245, 255>>

Blue == <<0, 102, 255>>

\* a colour with an alpha channel
WithAlpha(rgb, a) == <<rgb[1], rgb[2], rgb[3], a>>

\* draw.polygon(shield_points, fill=...) of either function: fill, no outline
ShieldDraws(f, pts) ==
    << Polygon("shield", pts,
               IF f = "create_adrig_icon" THEN <<0, 12, 40, 255>>
               ELSE <<0, 20, 60, 255>>,
               None, 1) >>

\* draw_circuit_dna: the strand segments, left and right in turn
StrandDraws(lp, rp) ==
    [k \in 1..2 * (Len(lp) - 1) |->
        IF k % 2 = 1
        THEN Line("helix", lp[(k + 1) \div 2], lp[(k + 1) \div 2 + 1],
                  WithAlpha(Cyan, 150), 2)
        ELSE Line("helix", rp[k \div 2], rp[k \div 2 + 1],
                  WithAlpha(Blue, 150), 2)]

\* One connection bar of draw_circuit_dna between the points at: the line
\* (part 1), the node at its left end (2) and the node at its right end (0).
Bar(at, part) ==
    IF part = 1 THEN Line("helix", at[1], at[2], WithAlpha(Cyan, 80), 2)
    ELSE Dot("helix", at[IF part = 2 THEN 1 ELSE 2][1], at[1][2], FromInt(2),
             Opaque(Cyan))

\* draw_circuit_dna: the connection bars, each a line and its two end nodes
BarDraws(cx, cy, r) ==
    [k \in 1..3 * connection_steps |->
        Bar(HelixAt(cx, cy, r, (k - 1) \div 3, connection_steps), k % 3)]

\* GlowAlpha without the `1 -`: alpha = int(40 * (offset/8))
GlowAlphaFalling(offset) == FTrunc(FMul(FromInt(40), Param(offset, 8)))

\* alpha = int(40 * (1 - offset/8)) of the text glow
GlowAlpha(offset) ==
    FTrunc(FMul(FromInt(40), FSub(FromInt(1), Param(offset, 8))))

\* The pixel size of a font: the size given to ImageFont.truetype, or the
\* size of the fallback font.
FontPx(fnt, r, hundredths) ==
    IF fnt = "truetype" THEN FTrunc(FMul(FromInt(r), Lit[hundredths]))
    ELSE DefaultFontPx

\* bbox[2] - bbox[0] of draw.textbbox((0, 0), text, font=...)
TextWidth(text, px) == Len(text) * (px \div GlyphDen)

\* One text block: create_adrig_icon draws it eight times with the glow
\* alphas of offset = 8, ..., 1 and then opaque, create_foreground_icon
\* draws it once, opaque.
TextDraws(f, stage, text, rgb, x, yy, px, ink) ==
    [k \in 1..(IF f = "create_adrig_icon" THEN 9 ELSE 1) |->
        Text(stage, x, yy, TextWidth(text, px), px, text,
             WithAlpha(rgb, IF f = "create_adrig_icon" /\ k <= 8
                            THEN GlowAlpha(9 - k) ELSE 255),
             ink)]

\* "Ad" in the top half: ad_x = center[0] - ad_width // 2 and
\* ad_y = center[1] - radius * 0.45
AdDraws(f, c, r, px, ink) ==
    TextDraws(f, "text_ad", "Ad", Cyan,
              FromInt(c[1] - TextWidth("Ad", px) \div 2),
              FSub(FromInt(c[2]), FMul(FromInt(r), Lit[45])), px, ink)

\* "Rig" in the bottom half: rig_x = center[0] - rig_width // 2 and
\* rig_y = center[1] + radius * 0.05
RigDraws(f, c, r, px, ink) ==
    TextDraws(f, "text_rig", "Rig", Blue,
              FromInt(c[1] - TextWidth("Rig", px) \div 2),
              FAdd(FromInt(c[2]), FMul(FromInt(r), Lit[5])), px, ink)

\* alpha of a divider segment at t: the fade in/out from the edges
FadeAlpha(t) ==
    IF FLess(t, Lit[20]) \/ FLess(Lit[80], t)
    THEN FTrunc(FMul(FromInt(100),
                     MinF(FDiv(t, Lit[20]),
                          FDiv(FSub(FromInt(1), t), Lit[20]))))
    ELSE 100

\* alpha of divider segment i
SegmentAlpha(i) == FadeAlpha(Param(i, segments))

\* segment k - 1 of a line that starts at line_start and is span long
SegmentsOver(line_y, line_start, span) ==
    [k \in 1..segments |->
        Line("divider",
             <<FAdd(line_start, FMul(span, Param(k - 1, segments))), line_y>>,
             <<FAdd(line_start,
                    FMul(span, FAdd(Param(k - 1, segments),
                                    Param(1, segments)))), line_y>>,
             WithAlpha(Cyan, SegmentAlpha(k - 1)), 2)]

\* the gradient line from line_start to line_end
SegmentsFrom(line_y, line_start, line_end) ==
    SegmentsOver(line_y, line_start, FSub(line_end, line_start))

\* the gradient line of create_adrig_icon: 50 segments from left to right
SegmentDraws(c, r) ==
    SegmentsFrom(FromInt(c[2]),
                 FSub(FromInt(c[1]), FMul(FromInt(r), Lit[40])),
                 FAdd(FromInt(c[1]), FMul(FromInt(r), Lit[40])))

\* NodeDraws with range(1, 6) for range(-2, 3)
NodeDrawsFromOne(c, r) ==
    [k \in 1..10 |->
        Dot("divider",
            FAdd(FromInt(c[1]),
                 FMul(FromInt(((k - 1) \div 2 + 1) * r), Lit[20])),
            FromInt(c[2]),
            IF k % 2 = 1 THEN FromInt(4) ELSE FromInt(2),
            IF k % 2 = 1 THEN WithAlpha(Cyan, 80) ELSE Opaque(Cyan))]

\* the circuit nodes on the divider: for i in range(-2, 3), a halo and a dot
\* at node_x = center[0] + (i * radius * 0.2)
NodeDraws(c, r) ==
    [k \in 1..10 |->
        Dot("divider",
            FAdd(FromInt(c[1]),
                 FMul(FromInt(((k - 1) \div 2 - 2) * r), Lit[20])),
            FromInt(c[2]),
            IF k % 2 = 1 THEN FromInt(4) ELSE FromInt(2),
            IF k % 2 = 1 THEN WithAlpha(Cyan, 80) ELSE Opaque(Cyan))]

\* the dividing line of create_foreground_icon
PlainDivider(c, r) ==
    << Line("divider",
            <<FSub(FromInt(c[1]), FMul(FromInt(r), Lit[40])), FromInt(c[2])>>,
            <<FAdd(FromInt(c[1]), FMul(FromInt(r), Lit[40])), FromInt(c[2])>>,
            WithAlpha(Cyan, 255), 2) >>

\* the divider: segments and nodes in create_adrig_icon, one line in
\* create_foreground_icon
DividerDraws(f, c, r) ==
    IF f = "create_adrig_icon" THEN SegmentDraws(c, r) \o NodeDraws(c, r)
    ELSE PlainDivider(c, r)

\* draw_corner_accents: the four corners
corners(cx, cy, r) ==
    << <<FSub(cx, FMul(r, Lit[60])), FSub(cy, FMul(r, Lit[50]))>>,
       <<FAdd(cx, FMul(r, Lit[60])), FSub(cy, FMul(r, Lit[50]))>>,
       <<FSub(cx, FMul(r, Lit[50])), FAdd(cy, FMul(r, Lit[60]))>>,
       <<FAdd(cx, FMul(r, Lit[50])), FAdd(cy, FMul(r, Lit[60]))>> >>

\* cross_size = 10: the cross line through (x, y) along dx, dy
CrossLine(x, yy, dx, dy) ==
    Line("accents", <<FSub(x, dx), FSub(yy, dy)>>, <<FAdd(x, dx), FAdd(yy, dy)>>,
         WithAlpha(Cyan, 150), 2)

\* One drawing call of a corner accent: the three dots (parts 1, 2, 3) and
\* the two cross lines (4, 0).
Accent(x, yy, part) ==
    IF part \in {1, 2, 3}
    THEN Dot("accents", x, yy,
             FromInt(CASE part = 1 -> 6 [] part = 2 -> 3 [] part = 3 -> 1),
             CASE part = 1 -> WithAlpha(Cyan, 100)
               [] part = 2 -> Opaque(Cyan)
               [] part = 3 -> Opaque(<<255, 255, 255>>))
    ELSE CrossLine(x, yy, IF part = 4 THEN FromInt(10) ELSE Zero,
                   IF part = 4 THEN Zero ELSE FromInt(10))

\* the accents of the corners cs, five drawing calls each
AccentsAt(cs) ==
    [k \in 1..5 * Len(cs) |->
        Accent(cs[(k - 1) \div 5 + 1][1], cs[(k - 1) \div 5 + 1][2], k % 5)]

\* draw_corner_accents(draw, center, radius)
AccentDraws(c, r) ==
    AccentsAt(corners(FromInt(c[1]), FromInt(c[2]), FromInt(r)))

\* alpha = int(50 * (1 - i/10)) of the outer glow
BorderAlpha(i) ==
    FTrunc(FMul(FromInt(50), FSub(FromInt(1), Param(i, 10))))

\* enlarged_points of the outer glow, for one i
enlarged_points(pts, c, i) ==
    [k \in 1..Len(pts) |->
        << FAdd(pts[k][1],
                FMul(FMul(FSub(pts[k][1], FromInt(c[1])), FromInt(i)), Lit[2])),
           FAdd(pts[k][2],
                FMul(FMul(FSub(pts[k][2], FromInt(c[2])), FromInt(i)), Lit[2]))
        >>]

\* BorderDraws with the main border drawn before the outer glow
BorderDrawsStrokeFirst(f, pts, c) ==
    IF f = "create_adrig_icon"
    THEN << Polygon("border", pts, None, WithAlpha(Cyan, 255), 3) >>
         \o [k \in 1..10 |->
                Polygon("border", enlarged_points(pts, c, 11 - k), None,
                        WithAlpha(Cyan, BorderAlpha(11 - k)), 2)]
    ELSE << Polygon("border", pts, None, WithAlpha(Cyan, 255), 4) >>

\* The border: create_adrig_icon draws the outer glow for i = 10, ..., 1 and
\* then the main border of width 3; create_foreground_icon draws one border
\* of width 4.
BorderDraws(f, pts, c) ==
    IF f = "create_adrig_icon"
    THEN [k \in 1..10 |->
            Polygon("border", enlarged_points(pts, c, 11 - k), None,
                    WithAlpha(Cyan, BorderAlpha(11 - k)), 2)]
         \o << Polygon("border", pts, None, WithAlpha(Cyan, 255), 3) >>
    ELSE << Polygon("border", pts, None, WithAlpha(Cyan, 255), 4) >>

\* ------------------------------------------------------------------------
\* create_adrig_icon(size) and create_foreground_icon(size)
\* ------------------------------------------------------------------------

Init ==
    /\ pc = "idle"
    /\ fn = "none"
    /\ size = 0
    /\ center = <<0, 0>>
    /\ radius = 0
    /\ shield_points = <<>>
    /\ left_points = <<>>
    /\ right_points = <<>>
    /\ row = 0
    /\ put = <<>>
    /\ ratios = <<>>
    /\ img = <<>>
    /\ log = <<>>
    /\ stages = <<>>
    /\ font = "none"
    /\ err = "none"
    /\ result = <<>>

\* The call and the head of the function: Image.new raises ValueError for a
\* negative size and makes an empty canvas for size 0; nothing else looks at
\* size before the canvas exists.
Call(f, s) ==
    /\ pc = "idle"
    /\ fn' = f
    /\ size' = s
    /\ IF s < 0
       THEN /\ pc' = "error"
            /\ err' = "ValueError"
            /\ UNCHANGED <<center, radius, row, put, ratios, img>>
       ELSE /\ img' = [p \in Probes(s) |-> Transparent]
            /\ center' = <<s \div 2, s \div 2>>
            /\ err' = err
            /\ IF f = "create_adrig_icon"
               THEN /\ pc' = "gradient"
                    /\ row' = 0
                    /\ put' = [p \in Followed(s) |-> <<>>]
                    /\ ratios' = [p \in Followed(s) |-> None]
                    /\ radius' = radius
               ELSE /\ pc' = "shield"
                    /\ radius' = FTrunc(FMul(FromInt(s), Lit[35]))
                    /\ UNCHANGED <<row, put, ratios>>
    /\ UNCHANGED <<shield_points, left_points, right_points, log, stages,
                   font, result>>

\* One pass of `for y in range(size)`: the inner loop over x writes every
\* pixel of the row; the division raises when max_radius is 0.0.
GradientRow ==
    /\ pc = "gradient"
    /\ row < size
    /\ IF max_radius(center) = Zero
       THEN /\ pc' = "error"
            /\ err' = "ZeroDivisionError"
            /\ UNCHANGED <<row, put, ratios, img>>
       ELSE /\ ratios' = [p \in DOMAIN put |->
                             IF p[2] = row
                             THEN FDiv(distance(p, center), max_radius(center))
                             ELSE ratios[p]]
            /\ put' = [p \in DOMAIN put |->
                          IF p[2] = row
                          THEN Append(put[p], GradientColor(ratios'[p]))
                          ELSE put[p]]
            /\ img' = [p \in DOMAIN img |->
                          IF p[2] = row THEN put'[p][Len(put'[p])]
                          ELSE img[p]]
            /\ row' = row + 1
            /\ UNCHANGED <<pc, err>>
    /\ UNCHANGED <<fn, size, center, radius, shield_points, left_points,
                   right_points, log, stages, font, result>>

\* The gradient loop has ended: radius = int(size * 0.38)
GradientDone ==
    /\ pc = "gradient"
    /\ row >= size
    /\ radius' = FTrunc(FMul(FromInt(size), Lit[38]))
    /\ stages' = Append(stages, "gradient")
    /\ pc' = "shield"
    /\ UNCHANGED <<fn, size, center, shield_points, left_points, right_points,
                   row, put, ratios, img, log, font, err, result>>

\* shield_points = create_shield_points(center, radius); draw.polygon(...)
DrawShield ==
    /\ pc = "shield"
    /\ shield_points' = create_shield_points(FromInt(center[1]),
                                             FromInt(center[2]), FromInt(radius))
    /\ log' = log \o ShieldDraws(fn, shield_points')
    /\ img' = Paint(img, SubSeq(log', Len(log) + 1, Len(log')))
    /\ stages' = Append(stages, "shield")
    /\ pc' = "helix"
    /\ UNCHANGED <<fn, size, center, radius, left_points, right_points, row,
                   put, ratios, font, err, result>>

\* draw_circuit_dna(draw, center, radius)
DrawCircuitDna ==
    /\ pc = "helix"
    /\ \E strands \in {HelixStrands(FromInt(center[1]), FromInt(center[2]),
                                     FromInt(radius))} :
          /\ left_points' = strands[1]
          /\ right_points' = strands[2]
    /\ log' = log \o StrandDraws(left_points', right_points')
                  \o BarDraws(FromInt(center[1]), FromInt(center[2]),
                              FromInt(radius))
    /\ img' = Paint(img, SubSeq(log', Len(log) + 1, Len(log')))
    /\ stages' = Append(stages, "helix")
    /\ pc' = "fonts"
    /\ UNCHANGED <<fn, size, center, radius, shield_points, row, put, ratios,
                   font, err, result>>

\* The try/except around ImageFont.truetype: the font file is there or not,
\* and a font of pixel size 0 cannot be loaded; any failure ends in
\* ImageFont.load_default().
LoadFonts ==
    /\ pc = "fonts"
    /\ \E fnt \in {"truetype", "default"} :
          /\ fnt = "truetype" =>
                /\ FTrunc(FMul(FromInt(radius), Lit[50])) > 0
                /\ FTrunc(FMul(FromInt(radius), Lit[48])) > 0
          /\ font' = fnt
    /\ pc' = "text_ad"
    /\ UNCHANGED <<fn, size, center, radius, shield_points, left_points,
                   right_points, row, put, ratios, img, log, stages, err,
                   result>>

\* "Ad": the glow loop and the main text, or the plain text
DrawAd ==
    /\ pc = "text_ad"
    /\ \E ink \in BOOLEAN :
          log' = log \o AdDraws(fn, center, radius, FontPx(font, radius, 50),
                                ink)
    /\ img' = Paint(img, SubSeq(log', Len(log) + 1, Len(log')))
    /\ stages' = Append(stages, "text_ad")
    /\ pc' = "text_rig"
    /\ UNCHANGED <<fn, size, center, radius, shield_points, left_points,
                   right_points, row, put, ratios, font, err, result>>

\* "Rig": the glow loop and the main text, or the plain text
DrawRig ==
    /\ pc = "text_rig"
    /\ \E ink \in BOOLEAN :
          log' = log \o RigDraws(fn, center, radius, FontPx(font, radius, 48),
                                 ink)
    /\ img' = Paint(img, SubSeq(log', Len(log) + 1, Len(log')))
    /\ stages' = Append(stages, "text_rig")
    /\ pc' = "divider"
    /\ UNCHANGED <<fn, size, center, radius, shield_points, left_points,
                   right_points, row, put, ratios, font, err, result>>

\* the dividing line between Ad and Rig, with its circuit nodes
DrawDivider ==
    /\ pc = "divider"
    /\ log' = log \o DividerDraws(fn, center, radius)
    /\ img' = Paint(img, SubSeq(log', Len(log) + 1, Len(log')))
    /\ stages' = Append(stages, "divider")
    /\ pc' = "accents"
    /\ UNCHANGED <<fn, size, center, radius, shield_points, left_points,
                   right_points, row, put, ratios, font, err, result>>

\* draw_corner_accents(draw, center, radius)
DrawCornerAccents ==
    /\ pc = "accents"
    /\ log' = log \o AccentDraws(center, radius)
    /\ img' = Paint(img, SubSeq(log', Len(log) + 1, Len(log')))
    /\ stages' = Append(stages, "accents")
    /\ pc' = "border"
    /\ UNCHANGED <<fn, size, center, radius, shield_points, left_points,
                   right_points, row, put, ratios, font, err, result>>

\* the glowing border
DrawBorder ==
    /\ pc = "border"
    /\ log' = log \o BorderDraws(fn, shield_points, center)
    /\ img' = Paint(img, SubSeq(log', Len(log) + 1, Len(log')))
    /\ stages' = Append(stages, "border")
    /\ pc' = "return"
    /\ UNCHANGED <<fn, size, center, radius, shield_points, left_points,
                   right_points, row, put, ratios, font, err, result>>

\* return img.convert('RGB') in create_adrig_icon, return img in
\* create_foreground_icon
Return ==
    /\ pc = "return"
    /\ result' = IF fn = "create_adrig_icon"
                 THEN [p \in DOMAIN img |-> <<img[p][1], img[p][2], img[p][3]>>]
                 ELSE img
    /\ pc' = "done"
    /\ UNCHANGED <<fn, size, center, radius, shield_points, left_points,
                   right_points, row, put, ratios, img, log, stages, font, err>>

Next ==
    \/ \E f \in Functions, s \in Sizes : Call(f, s)
    \/ GradientRow
    \/ GradientDone
    \/ DrawShield
    \/ DrawCircuitDna
    \/ LoadFonts
    \/ DrawAd
    \/ DrawRig
    \/ DrawDivider
    \/ DrawCornerAccents
    \/ DrawBorder
    \/ Return

Spec == Init /\ [][Next]_vars

\* ------------------------------------------------------------------------
\* the geometry builders on their own
\* ------------------------------------------------------------------------

GeoInit ==
    /\ pc = "call"
    /\ center \in ((0..MaxCoord) \X (0..MaxCoord))
                   \cup {<<DefaultSize \div 2, DefaultSize \div 2>>}
    /\ radius \in (1..MaxInputRadius)
                   \cup {FTrunc(FMul(FromInt(DefaultSize), Lit[38])),
                         FTrunc(FMul(FromInt(DefaultSize), Lit[35]))}
    /\ shield_points = <<>>
    /\ left_points = <<>>
    /\ right_points = <<>>
    /\ fn = "none"
    /\ size = 0
    /\ row = 0
    /\ put = <<>>
    /\ ratios = <<>>
    /\ img = <<>>
    /\ log = <<>>
    /\ stages = <<>>
    /\ font = "none"
    /\ err = "none"
    /\ result = <<>>

\* shield_points = create_shield_points(center, radius)
ShieldCall ==
    /\ pc = "call"
    /\ shield_points' = create_shield_points(FromInt(center[1]),
                                             FromInt(center[2]), FromInt(radius))
    /\ pc' = "returned"
    /\ UNCHANGED <<fn, size, center, radius, left_points, right_points, row, put,
                   ratios, img, log, stages, font, err, result>>

SpecShield == GeoInit /\ [][ShieldCall]_vars

\* The strand loop of draw_circuit_dna(draw, center, radius)
HelixCall ==
    /\ pc = "call"
    /\ \E strands \in {HelixStrands(FromInt(center[1]), FromInt(center[2]),
                                     FromInt(radius))} :
          /\ left_points' = strands[1]
          /\ right_points' = strands[2]
    /\ pc' = "returned"
    /\ UNCHANGED <<fn, size, center, radius, shield_points, row, put, ratios, img,
                   log, stages, font, err, result>>

SpecHelix == GeoInit /\ [][HelixCall]_vars

\* ------------------------------------------------------------------------
\* claims about the geometry builders
\* ------------------------------------------------------------------------

\* ------------------------------------------------------------------------
\* claims about the geometry builders
\* ------------------------------------------------------------------------

\* 2^k as a float
Pow2F(k) == [s |-> 1, h |-> 2^25, l |-> 0, e |-> k - 52]

\* The x-offsets of xl and xr from cx are exact negations of each other.
ExactMirror(cx, xl, xr) == FSub(xl, cx) = FNeg(FSub(xr, cx))

\* The x-offsets of xl and xr from cx are negations of each other up to the
\* rounding of the additions: their sum is at most 2^-50 (|cx| + |xr - cx|).
RoundedMirror(cx, xl, xr) ==
    FLessEq(FAbs(FAdd(FSub(xl, cx), FSub(xr, cx))),
            FMul(Pow2F(-50), FAdd(FAbs(cx), FAbs(FSub(xr, cx)))))

\* C1 as stated: create_shield_points returns exactly 12 points, points 0 and
\* 6 lie on x = cx, and for each i in 1..5 point i and point 12-i have the
\* same y and x-offsets from cx that are exact negations of each other.
C1_ExactSymmetry ==
    pc = "returned" /\ shield_points # <<>> =>
        /\ Len(shield_points) = 12
        /\ shield_points[1][1] = FromInt(center[1])
        /\ shield_points[7][1] = FromInt(center[1])
        /\ \A i \in 1..5 :
              /\ shield_points[i + 1][2] = shield_points[13 - i][2]
              /\ ExactMirror(FromInt(center[1]), shield_points[i + 1][1],
                             shield_points[13 - i][1])

\* C1 as amended: create_shield_points returns exactly 12 points, points 0
\* and 6 lie on x = cx, and for each i in 1..5 point i and point 12-i have
\* the same y and x-offsets from cx that are negations of each other up to
\* floating-point rounding (their sum is at most 2^-50 (|cx| + |offset|)).
C1_RoundedSymmetry ==
    pc = "returned" /\ shield_points # <<>> =>
        /\ Len(shield_points) = 12
        /\ shield_points[1][1] = FromInt(center[1])
        /\ shield_points[7][1] = FromInt(center[1])
        /\ \A i \in 1..5 :
              /\ shield_points[i + 1][2] = shield_points[13 - i][2]
              /\ RoundedMirror(FromInt(center[1]), shield_points[i + 1][1],
                               shield_points[13 - i][1])

\* A call of create_shield_points has returned 12 points of which one pair is
\* not an exact mirror pair.
C1_Witness ==
    /\ pc = "returned"
    /\ Len(shield_points) = 12
    /\ \E i \in 1..5 : ~ExactMirror(FromInt(center[1]), shield_points[i + 1][1],
                                    shield_points[13 - i][1])

\* C2 as stated: the two strands have equal length, steps = 40 when the loop
\* has ended, and for every sampled index i, left[i].y = right[i].y and
\* left[i].x - cx = -(right[i].x - cx); every parameter t = i/steps is in
\* [0, 1).
C2_ExactMirror ==
    /\ Len(left_points) = Len(right_points)
    /\ pc = "returned" => Len(left_points) = steps
    /\ \A i \in 1..Len(left_points) :
          /\ left_points[i][2] = right_points[i][2]
          /\ ExactMirror(FromInt(center[1]), left_points[i][1],
                         right_points[i][1])
          /\ FLessEq(Zero, Param(i - 1, steps))
          /\ FLess(Param(i - 1, steps), FromInt(1))

\* C2 as amended: the two strands have equal length, steps = 40 when the loop
\* has ended, and for every sampled index i, left[i].y = right[i].y and the
\* x-offsets from cx are negations of each other up to floating-point
\* rounding; every parameter t = i/steps is in [0, 1).
C2_RoundedMirror ==
    /\ Len(left_points) = Len(right_points)
    /\ pc = "returned" => Len(left_points) = steps
    /\ \A i \in 1..Len(left_points) :
          /\ left_points[i][2] = right_points[i][2]
          /\ RoundedMirror(FromInt(center[1]), left_points[i][1],
                           right_points[i][1])
          /\ FLessEq(Zero, Param(i - 1, steps))
          /\ FLess(Param(i - 1, steps), FromInt(1))

\* The helix loop has ended with 40 samples on each strand, one of them not
\* an exact mirror pair.
C2_Witness ==
    /\ pc = "returned"
    /\ Len(left_points) = steps
    /\ Len(right_points) = steps
    /\ \E i \in 1..steps : ~ExactMirror(FromInt(center[1]), left_points[i][1],
                                        right_points[i][1])

\* ------------------------------------------------------------------------
\* claims about the gradient
\* ------------------------------------------------------------------------

\* the four corners of a canvas of n x n pixels
Corners(n) == {<<0, 0>>, <<n - 1, 0>>, <<0, n - 1>>, <<n - 1, n - 1>>}

\* The gradient pass of create_adrig_icon has ended and nothing is drawn yet.
GradientPassed == fn = "create_adrig_icon" /\ pc = "shield"

\* C3: after the gradient pass of create_adrig_icon(size), size >= 2, the
\* pixel at the center is the first stop (0, 8, 32, 255), and the pixel at
\* the farthest corner from the center, (0, 0), whose ratio is 1.0, is the
\* last stop (15, 52, 96, 255).
C3_GradientStops ==
    GradientPassed /\ size >= 2 =>
        /\ img[center] = <<0, 8, 32, 255>>
        /\ img[<<0, 0>>] = <<15, 52, 96, 255>>
        /\ ratios[<<0, 0>>] = FromInt(1)
        /\ \A p \in Corners(size) : FLessEq(ratios[p], ratios[<<0, 0>>])

\* The gradient pass of the 1024-pixel icon has ended, with the last stop at
\* (0, 0) and the first stop at the center.
C3_Witness ==
    /\ GradientPassed
    /\ size = DefaultSize
    /\ row = DefaultSize
    /\ put[<<0, 0>>] = << <<15, 52, 96, 255>> >>
    /\ put[center] = << <<0, 8, 32, 255>> >>

\* C10 as stated: for every size >= 1 the gradient pass ends without error,
\* every pixel is written exactly once with alpha 255, max_radius is
\* strictly positive when a ratio is computed, and every ratio is in [0, 1].
C10_GradientTotal ==
    fn = "create_adrig_icon" /\ size >= 1 =>
        /\ err = "none"
        /\ \A p \in DOMAIN put :
              /\ Len(put[p]) = (IF p[2] < row THEN 1 ELSE 0)
              /\ p[2] < row =>
                    /\ FLess(Zero, max_radius(center))
                    /\ put[p][1][4] = 255
                    /\ FLessEq(Zero, ratios[p])
                    /\ FLessEq(ratios[p], FromInt(1))

\* C5 as stated: in the final canvas of create_adrig_icon(1024) all four
\* corner pixels are the outermost stop (15, 52, 96), and no draw after the
\* gradient pass touched them.
C5_CornersLastStop ==
    fn = "create_adrig_icon" /\ size = DefaultSize /\ pc = "done" =>
        \A p \in Corners(size) :
            /\ result[p] = <<15, 52, 96>>
            /\ img[p] = put[p][1]

\* C7 as stated: a call of either function with size <= 0 ends in an error
\* before any pixel is written or any shape is drawn, and returns no canvas.
C7_NonPositiveSizeFails ==
    fn # "none" /\ size <= 0 =>
        /\ pc = "error"
        /\ err # "none"
        /\ log = <<>>
        /\ stages = <<>>
        /\ result = <<>>

\* ------------------------------------------------------------------------
\* claims about the draw sequence
\* ------------------------------------------------------------------------

\* the stages of create_adrig_icon in the order of the code
StageOrder ==
    <<"gradient", "shield", "helix", "text_ad", "text_rig", "divider",
      "accents", "border">>

\* the place of a stage in StageOrder
Rank(stage) == CHOOSE k \in 1..Len(StageOrder) : StageOrder[k] = stage

\* the stage has finished
Finished(stage) == \E k \in 1..Len(stages) : stages[k] = stage

\* the drawing calls of a stage, in order
CallsOf(stage) == SelectSeq(log, LAMBDA d : d.stage = stage)

\* The stages run so far are the first stages of StageOrder, once each, and
\* the drawing calls made so far are those of finished stages, in the order
\* of the stages.
InStageOrder ==
    /\ Len(stages) <= Len(StageOrder)
    /\ stages = SubSeq(StageOrder, 1, Len(stages))
    /\ \A i \in 1..Len(log) : Finished(log[i].stage)
    /\ \A i \in 1..Len(log) - 1 : Rank(log[i].stage) <= Rank(log[i + 1].stage)

\* The last drawing call is the crisp stroke of the shield, of width 3 and
\* alpha 255, and the ten calls before it are the translucent glow outlines.
CrispStrokeLast ==
    /\ Len(log) > 10
    /\ log[Len(log)].stage = "border"
    /\ log[Len(log)].op = "polygon"
    /\ log[Len(log)].pts = shield_points
    /\ log[Len(log)].fill = None
    /\ log[Len(log)].outline = <<0, 245, 255, 255>>
    /\ log[Len(log)].width = 3
    /\ \A i \in Len(log) - 10 .. Len(log) - 1 :
          /\ log[i].stage = "border"
          /\ log[i].op = "polygon"
          /\ log[i].fill = None
          /\ log[i].outline[4] < 255

GlowThenOpaque(ds) ==
    /\ Len(ds) - 1 \in 8..15
    /\ \A i \in 1..Len(ds) :
          /\ ds[i].op = "text"
          /\ ds[i].text = ds[1].text
          /\ ds[i].pts = ds[1].pts
          /\ ds[i].fill[4] \in 0..255
          /\ SubSeq(ds[i].fill, 1, 3) = SubSeq(ds[1].fill, 1, 3)
    /\ \A i \in 1..Len(ds) - 2 : ds[i].fill[4] < ds[i + 1].fill[4]
    /\ \A i \in 1..Len(ds) - 1 : ds[i].fill[4] < 255
    /\ ds[Len(ds)].fill[4] = 255

\* C8: for each text block ("Ad" and "Rig") of create_adrig_icon, the glow
\* draws K translucent copies, 8 <= K <= 15, all at the same anchor, with
\* alpha in [0, 255] strictly increasing in draw order, and then exactly one
\* copy of alpha 255 at that anchor.
C8_TextGlow ==
    fn = "create_adrig_icon" =>
        /\ Finished("text_ad") =>
              /\ GlowThenOpaque(CallsOf("text_ad"))
              /\ CallsOf("text_ad")[1].text = "Ad"
        /\ Finished("text_rig") =>
              /\ GlowThenOpaque(CallsOf("text_rig"))
              /\ CallsOf("text_rig")[1].text = "Rig"

\* Both text blocks of create_adrig_icon(1024) are drawn: eight glow copies
\* with alphas 0, 5, ..., 35 and the opaque copy, for "Ad" and for "Rig".
C8_Witness ==
    /\ fn = "create_adrig_icon"
    /\ size = DefaultSize
    /\ Finished("text_rig")
    /\ [i \in 1..9 |-> CallsOf("text_ad")[i].fill[4]]
          = <<0, 5, 10, 15, 20, 25, 30, 35, 255>>
    /\ [i \in 1..9 |-> CallsOf("text_rig")[i].fill[4]]
          = <<0, 5, 10, 15, 20, 25, 30, 35, 255>>

\* the sub-segments of the divider of create_adrig_icon, in draw order
SubSegments == SelectSeq(log, LAMBDA d : d.stage = "divider" /\ d.op = "line")

\* C9 as stated: of the 50 sub-segments of the divider, i = 0..49 with
\* t = i/50, those with t in the middle third are drawn at alpha 100, those
\* with t < 0.2 or t > 0.8 ramp down toward the end of the line, and the
\* alpha of sub-segment i equals that of its mirror sub-segment 49-i.
C9_DividerFade ==
    fn = "create_adrig_icon" /\ Finished("divider") =>
        /\ Len(SubSegments) = segments
        /\ \A i \in 0..segments - 1 :
              /\ 3 * i >= segments /\ 3 * i <= 2 * segments =>
                    SubSegments[i + 1].fill[4] = 100
              /\ 5 * i < segments /\ i > 0 =>
                    SubSegments[i].fill[4] < SubSegments[i + 1].fill[4]
              /\ 5 * i > 4 * segments /\ i < segments - 1 =>
                    SubSegments[i + 2].fill[4] < SubSegments[i + 1].fill[4]
              /\ SubSegments[i + 1].fill[4]
                    = SubSegments[segments - i].fill[4]

\* C4 as stated: in the final canvas of create_adrig_icon(1024) the pixel at
\* the center (512, 512) has the shield fill colour (0, 12, 40): no draw
\* after the shield fill overwrites it.
C4_CenterKeepsShieldFill ==
    fn = "create_adrig_icon" /\ size = DefaultSize =>
        /\ Finished("shield") /\ pc # "done" => img[center] = <<0, 12, 40, 255>>
        /\ pc = "done" => result[center] = <<0, 12, 40>>

\* C4 as amended: in create_adrig_icon(1024) the shield fill leaves its
\* colour (0, 12, 40) at the center (512, 512), and later draws overwrite
\* it: the helix leaves the colour of a rung node there, and the divider,
\* whose middle node lies on the center, leaves (0, 245, 255), which is the
\* colour of the center in the final canvas; it is not the gradient colour.
C4_CenterOverwritten ==
    fn = "create_adrig_icon" /\ size = DefaultSize =>
        /\ center = <<512, 512>>
        /\ pc = "helix" => img[center] = <<0, 12, 40, 255>>
        /\ pc = "fonts" => img[center] = <<0, 245, 255, 255>>
        /\ Finished("divider") => img[center] = <<0, 245, 255, 255>>
        /\ pc = "done" =>
              /\ result[center] = <<0, 245, 255>>
              /\ result[center] # <<0, 8, 32>>

\* create_adrig_icon(1024) has returned a canvas whose center has the colour
\* of the divider node, after the gradient and the shield fill had left
\* their colours there.
C4_Witness ==
    /\ fn = "create_adrig_icon"
    /\ size = DefaultSize
    /\ pc = "done"
    /\ put[<<512, 512>>] = << <<0, 8, 32, 255>> >>
    /\ log[1].fill = <<0, 12, 40, 255>>
    /\ result[<<512, 512>>] = <<0, 245, 255>>

====
